---- MODULE Spec2Model ----
(***************************************************************************)
(* A model of pull_nyc_rent.py: the ACS5 rent pipeline                     *)
(*   fetch_many_years -> get_tiger_tracts_2020 -> get_nta2020 ->           *)
(*   spatial_join_to_nta -> aggregate_to_nta -> cpi_adjust -> pivot_wide   *)
(*   -> wide_to_geojson.                                                   *)
(*                                                                         *)
(* Conventions.                                                            *)
(*  - A pandas table is the set of its rows (records).  Every table of the *)
(*    pipeline has pairwise distinct rows, so nothing is lost.             *)
(*  - A nullable cell is a sequence: <<>> is NaN / None, <<v>> holds v.    *)
(*  - A number that need not be whole is a fraction [n |-> _, d |-> _].    *)
(*  - A geometry is the set of grid cells it covers; a geometry table      *)
(*    carries its coordinate reference as a tag.                           *)
(*                                                                         *)
(* Three specifications:                                                   *)
(*   Spec       one run of main()                                          *)
(*   SpecJoin   spatial_join_to_nta and aggregate_to_nta applied to        *)
(*              arbitrary bounded tract, unit and rent tables              *)
(*   SpecCache  a sequence of get_tiger_tracts_2020 calls over one         *)
(*              data/tiger directory                                       *)
(***************************************************************************)
EXTENDS Integers, Sequences, FiniteSets, TLC

VARIABLES
    pc,         \* position of main(), or of the harness
    args,       \* parsed command line: [start, end]
    api,        \* the Census API's answer to each year's request
    warned,     \* years for which fetch_many_years printed a warning
    rents,      \* tract-year table returned by fetch_many_years
    fs,         \* data/tiger: [zip, ddir]
    downloads,  \* number of download_zip calls that wrote the archive
    calls,      \* number of get_tiger_tracts_2020 calls made
    ret,        \* return values of the last two get_tiger_tracts_2020 calls
    tracts,     \* tract geometry table
    ntas,       \* unit geometry table
    cross,      \* crosswalk
    nta_year,   \* unit-year table (rent_adj added in place by cpi_adjust)
    cpi,        \* CPI series read from the CSV
    wide,       \* wide table
    out_file,   \* the file at args.out
    err         \* the exception that ended the run, "" if none

vars == <<pc, args, api, warned, rents, fs, downloads, calls, ret, tracts,
          ntas, cross, nta_year, cpi, wide, out_file, err>>

-----------------------------------------------------------------------------
(* Bounds of the model *)

MaxRent == 2
MaxCpi == 2
SpanYears == 2
NumCells == 2
MaxCalls == 5

-----------------------------------------------------------------------------
(* Constants of the program *)

NYC_COUNTIES == {"005", "047", "061", "081", "085"}
STATE_FIPS == "36"
VAR_NAME == "B25064_001E"
BASE_YEAR == 2025
END_DEFAULT == 2023

Years == (END_DEFAULT - SpanYears + 1)..END_DEFAULT
Cells == 1..NumCells

None == <<>>
Some(v) == <<v>>
IsNull(c) == c = <<>>
Val(c) == c[1]

-----------------------------------------------------------------------------
(* fetch_acs5_rent *)

Digit == <<"1", "2", "3", "4", "5", "6", "7", "8", "9">>

\* pd.to_numeric(text, errors='coerce'): the number a numeral denotes, NaN
\* for anything else.
ToNumeric(text) ==
    IF \E n \in DOMAIN Digit : Digit[n] = text
    THEN Some(CHOOSE n \in DOMAIN Digit : Digit[n] = text)
    ELSE None

\* The texts the API may put in the estimate column.
RawTexts == {Digit[n] : n \in 1..MaxRent} \cup {"null"}

\* Rows of the API's answer: one NYC tract whose estimate varies, one
\* upstate tract (Albany county) that the county filter removes.
ApiRows(text) ==
    { [county |-> "005", tract |-> "000100", value |-> text],
      [county |-> "001", tract |-> "000300", value |-> "1"] }

ApiOutcomes ==
    { [kind |-> "ok", rows |-> ApiRows(t)] : t \in RawTexts }
    \cup { [kind |-> k, rows |-> {}] : k \in {"http_error", "timeout", "bad_json"} }

\* [raised, df]: requests.get raises on a timeout (outside the try block);
\* raise_for_status raises HTTPError; r.json() raises a JSON decode error;
\* both are re-raised by the except clause.
fetch_acs5_rent(year, o) ==
    IF o.kind = "timeout" THEN [raised |-> "Timeout", df |-> {}]
    ELSE IF o.kind = "http_error" THEN [raised |-> "HTTPError", df |-> {}]
    ELSE IF o.kind = "bad_json" THEN [raised |-> "JSONDecodeError", df |-> {}]
    ELSE [raised |-> "",
          df |-> { [geoid |-> STATE_FIPS \o r.county \o r.tract,
                    year |-> year,
                    est |-> ToNumeric(r.value)] :
                   r \in { q \in o.rows : q.county \in NYC_COUNTIES } }]

-----------------------------------------------------------------------------
(* fetch_many_years *)

\* Which exceptions the loop's except clause catches.
LoopCatches(raised) == raised = "HTTPError"

RECURSIVE FetchLoop(_, _, _, _, _)
\* The for loop from year y on: [raised, frames, warned].
FetchLoop(y, end, a, frames, w) ==
    IF y > end THEN [raised |-> "", frames |-> frames, warned |-> w]
    ELSE LET r == fetch_acs5_rent(y, a[y]) IN
         IF r.raised = "" THEN FetchLoop(y + 1, end, a, Append(frames, r.df), w)
         ELSE IF LoopCatches(r.raised) THEN FetchLoop(y + 1, end, a, frames, w \cup {y})
         ELSE [raised |-> r.raised, frames |-> frames, warned |-> w]

\* pd.concat(frames, ignore_index=True): raises ValueError on an empty list.
Concat(frames) ==
    IF frames = <<>> THEN [raised |-> "ValueError", df |-> {}]
    ELSE [raised |-> "", df |-> UNION { frames[i] : i \in DOMAIN frames }]

fetch_many_years(start, end, a) ==
    LET l == FetchLoop(start, end, a, <<>>, {}) IN
    IF l.raised # "" THEN [raised |-> l.raised, df |-> {}, warned |-> l.warned]
    ELSE LET c == Concat(l.frames) IN
         [raised |-> c.raised, df |-> c.df, warned |-> l.warned]

-----------------------------------------------------------------------------
(* download_zip, extract_zip, get_tiger_tracts_2020, get_nta2020 *)

TigerRows(g2) ==
    { [GEOID |-> "36005000100", COUNTYFP |-> "005", geometry |-> {1}],
      [GEOID |-> "36047000200", COUNTYFP |-> "047", geometry |-> g2],
      [GEOID |-> "36001000300", COUNTYFP |-> "001", geometry |-> {3}] }

\* What the server may send: the archive as published, a republished
\* archive with one tract redrawn (it now covers its neighbour), or a body
\* that is no zip archive at all.
Bodies ==
    { [is_zip |-> TRUE, shp |-> {TigerRows({2})}],
      [is_zip |-> TRUE, shp |-> {TigerRows({1, 2})}],
      [is_zip |-> FALSE, shp |-> {}] }

NetOutcomes ==
    { [status |-> s, body |-> b, extract |-> x] :
        s \in {"ok", "http_error"}, b \in Bodies, x \in {"full", "interrupted"} }

NoDir == [exists |-> FALSE, shp |-> {}]
EmptyFs == [zip |-> None, ddir |-> NoDir]

\* [raised, zip]: raise_for_status precedes the open() of the destination.
download_zip(zip, o) ==
    IF o.status = "http_error" THEN [raised |-> "HTTPError", zip |-> zip]
    ELSE [raised |-> "", zip |-> Some(o.body)]

\* [raised, ddir]: ZipFile() rejects a body that is no archive before
\* anything is extracted; an interrupted extractall leaves the directory
\* behind without the shapefile.
extract_zip(zip, ddir, o) ==
    IF ~Val(zip).is_zip THEN [raised |-> "BadZipFile", ddir |-> ddir]
    ELSE IF o.extract = "interrupted"
         THEN [raised |-> "OSError", ddir |-> [exists |-> TRUE, shp |-> {}]]
         ELSE [raised |-> "", ddir |-> [exists |-> TRUE, shp |-> Val(zip).shp]]

\* (mutant) the directory test left out: every call downloads.
NeedsDownloadAlways(ddir) == TRUE

\* The test that guards the download.
NeedsDownload(ddir) == ~ddir.exists

\* Lines 219-227: read the first *.shp of the directory, keep NYC counties.
ReadTracts(ddir) ==
    IF ddir.shp = {} THEN [raised |-> "IndexError", gdf |-> None]
    ELSE LET file == CHOOSE f \in ddir.shp : TRUE IN
         [raised |-> "",
          gdf |-> Some([crs |-> "EPSG:4269",
                        rows |-> { [GEOID |-> r.GEOID, geometry |-> r.geometry] :
                                   r \in { q \in file : q.COUNTYFP \in NYC_COUNTIES } }])]

\* [raised, fs, downloaded, gdf]
get_tiger_tracts_2020(f, o) ==
    IF NeedsDownload(f.ddir)
    THEN LET d == download_zip(f.zip, o) IN
         IF d.raised # ""
         THEN [raised |-> d.raised, fs |-> f, downloaded |-> 0, gdf |-> None]
         ELSE LET x == extract_zip(d.zip, f.ddir, o) IN
              IF x.raised # ""
              THEN [raised |-> x.raised, fs |-> [zip |-> d.zip, ddir |-> x.ddir],
                    downloaded |-> 1, gdf |-> None]
              ELSE LET r == ReadTracts(x.ddir) IN
                   [raised |-> r.raised, fs |-> [zip |-> d.zip, ddir |-> x.ddir],
                    downloaded |-> 1, gdf |-> r.gdf]
    ELSE LET r == ReadTracts(f.ddir) IN
         [raised |-> r.raised, fs |-> f, downloaded |-> 0, gdf |-> r.gdf]

\* GeoDataFrame.to_crs: the same regions expressed in another reference.
to_crs(gdf, crs) == [crs |-> crs, rows |-> gdf.rows]

\* Lines 247-252, given the tract table get_tiger_tracts_2020 returned.
NtaFromTracts(t) ==
    to_crs([crs |-> t.crs,
            rows |-> { [nta_code |-> r.GEOID,
                        nta_name |-> "Tract " \o r.GEOID,
                        geometry |-> r.geometry] : r \in t.rows }],
           "EPSG:2263")

-----------------------------------------------------------------------------
(* spatial_join_to_nta *)

\* shapely's "within": every point of a lies in b, and a is not empty.
Within(a, b) == a # {} /\ a \subseteq b

\* The units whose geometry contains tract row t.
Containing(t, units) == { u \in units.rows : Within(t.geometry, u.geometry) }

\* (mutant) how='inner': a tract with no containing unit has no row.
SjoinUnmatchedInner(t) == {}

\* how='left': a tract with no containing unit keeps one row, its unit
\* columns NaN.
SjoinUnmatched(t) ==
    { [GEOID |-> t.GEOID, nta_code |-> None, nta_name |-> None] }

\* One row per (tract, containing unit) pair.
SjoinMatched(t, units) ==
    { [GEOID |-> t.GEOID, nta_code |-> Some(u.nta_code), nta_name |-> Some(u.nta_name)] :
      u \in Containing(t, units) }

\* gpd.sjoin(tr, ntas, how='left', predicate='within')[cols]
Sjoin(tr, units) ==
    UNION { IF Containing(t, units) = {} THEN SjoinUnmatched(t)
            ELSE SjoinMatched(t, units) : t \in tr.rows }

\* drop_duplicates() is the passage to a set of rows.
spatial_join_to_nta(t, units) ==
    LET tr == to_crs(t, units.crs) IN Sjoin(tr, units)

-----------------------------------------------------------------------------
(* aggregate_to_nta *)

\* rents.merge(cross, left_on='geoid', right_on='GEOID', how='left')
LeftMerge(rs, cw) ==
    UNION { IF { c \in cw : c.GEOID = r.geoid } = {}
            THEN { [geoid |-> r.geoid, year |-> r.year, est |-> r.est,
                    nta_code |-> None, nta_name |-> None] }
            ELSE { [geoid |-> r.geoid, year |-> r.year, est |-> r.est,
                    nta_code |-> c.nta_code, nta_name |-> c.nta_name] :
                   c \in { c \in cw : c.GEOID = r.geoid } } : r \in rs }

\* df.dropna(subset=['nta_code'])
DropNaCode(df) == { r \in df : ~IsNull(r.nta_code) }

\* (mutant) only the rows with an estimate form groups.
GroupKeysNonNull(df) ==
    { <<Val(r.nta_code), Val(r.nta_name), r.year>> : r \in { q \in df : ~IsNull(q.est) } }

\* The keys groupby forms: every key some row carries.
GroupKeys(df) == { <<Val(r.nta_code), Val(r.nta_name), r.year>> : r \in df }

GroupRows(df, k) ==
    { r \in df : <<Val(r.nta_code), Val(r.nta_name), r.year>> = k }

\* (mutant) fillna(0): a missing estimate counts as zero.
MedianInputsZeroFilled(g) ==
    { IF IsNull(r.est) THEN [r EXCEPT !.est = Some(0)] ELSE r : r \in g }

\* The estimates a group's median is taken over: NaN is skipped.
MedianInputs(g) == { r \in g : ~IsNull(r.est) }

RECURSIVE SortedEsts(_)
SortedEsts(g) ==
    IF g = {} THEN <<>>
    ELSE LET m == CHOOSE r \in g : \A q \in g : Val(r.est) <= Val(q.est) IN
         <<Val(m.est)>> \o SortedEsts(g \ {m})

\* Series.median(): NaN for no values, the middle value, or the mean of the
\* two middle values.
Median(s) ==
    LET n == Len(s) IN
    IF n = 0 THEN None
    ELSE IF n % 2 = 1 THEN Some([n |-> s[(n + 1) \div 2], d |-> 1])
    ELSE Some([n |-> s[n \div 2] + s[n \div 2 + 1], d |-> 2])

aggregate_to_nta(rs, cw) ==
    LET df == DropNaCode(LeftMerge(rs, cw)) IN
    { [nta_code |-> k[1], nta_name |-> k[2], year |-> k[3],
       est |-> Median(SortedEsts(MedianInputs(GroupRows(df, k))))] :
      k \in GroupKeys(df) }

-----------------------------------------------------------------------------
(* cpi_adjust *)

CpiYears == Years \cup {BASE_YEAR}
CpiValues == 1..MaxCpi

\* The series a CSV with columns year,cpi may hold.
CpiTables == UNION { [D -> CpiValues] : D \in SUBSET CpiYears }

\* The check of line 331.
BaseYearMissing(c, base_year) == base_year \notin DOMAIN c

\* cpi.loc[int(r['year'])] raises KeyError for a year the series lacks.
RowYearMissing(df, c) == \E r \in df : r.year \notin DOMAIN c

\* r[VAR_NAME] * (base / cpi.loc[year]); NaN stays NaN.
Adjusted(est, base, cy) ==
    IF IsNull(est) THEN None
    ELSE Some([n |-> Val(est).n * base, d |-> Val(est).d * cy])

\* (mutant) a row whose year the series lacks is skipped.
cpi_adjust_skipping(df, c, base_year) ==
    IF BaseYearMissing(c, base_year) THEN [raised |-> "ValueError", df |-> df]
    ELSE [raised |-> "",
          df |-> { [nta_code |-> r.nta_code, nta_name |-> r.nta_name,
                    year |-> r.year, est |-> r.est,
                    rent_adj |-> Adjusted(r.est, c[base_year], c[r.year])] :
                   r \in { q \in df : q.year \in DOMAIN c } }]

\* [raised, df].  apply() on a table without rows returns a table, and
\* assigning a table of several columns to one column raises ValueError.
cpi_adjust(df, c, base_year) ==
    IF BaseYearMissing(c, base_year) THEN [raised |-> "ValueError", df |-> df]
    ELSE IF df = {} THEN [raised |-> "ValueError", df |-> df]
    ELSE IF RowYearMissing(df, c) THEN [raised |-> "KeyError", df |-> df]
    ELSE [raised |-> "",
          df |-> { [nta_code |-> r.nta_code, nta_name |-> r.nta_name,
                    year |-> r.year, est |-> r.est,
                    rent_adj |-> Adjusted(r.est, c[base_year], c[r.year])] :
                   r \in df }]

-----------------------------------------------------------------------------
(* pivot_wide *)

\* f"rent_{int(c)}"
RentCol(year) == <<"rent_", year>>

\* pivot_table drops the rows whose value is NaN before it unstacks.
PivotInputs(df) == { r \in df : ~IsNull(r.rent_adj) }

\* The year columns of the wide table: the years that remain.
PivotYears(df) == { r.year : r \in PivotInputs(df) }

\* The cell of unit (code, name) in year y: the mean of the (single)
\* value, NaN when the pair has no row.
PivotCell(df, code, name, y) ==
    LET m == { r \in PivotInputs(df) :
               r.nta_code = code /\ r.nta_name = name /\ r.year = y } IN
    IF m = {} THEN None ELSE (CHOOSE r \in m : TRUE).rent_adj

pivot_wide(df) ==
    [cols |-> { RentCol(y) : y \in PivotYears(df) },
     rows |-> { [nta_code |-> k[1], nta_name |-> k[2],
                 cells |-> [c \in { RentCol(y) : y \in PivotYears(df) } |->
                            PivotCell(df, k[1], k[2], c[2])]] :
                k \in { <<r.nta_code, r.nta_name>> : r \in PivotInputs(df) } }]

-----------------------------------------------------------------------------
(* wide_to_geojson *)

\* round(0) of n/d, halves to the even neighbour.
Round(f) ==
    LET q == f.n \div f.d
        r == f.n % f.d IN
    IF 2 * r < f.d THEN q
    ELSE IF 2 * r > f.d THEN q + 1
    ELSE IF q % 2 = 0 THEN q ELSE q + 1

RoundCell(c) == IF IsNull(c) THEN None ELSE Some(Round(Val(c)))

\* ntas_gdf.merge(wide, on='nta_code', how='left'), rounded: one feature
\* per (unit, wide row of that code), and one of all-missing cells for a
\* unit without a wide row.  Both tables have nta_name, so the merge
\* suffixes it.
Features(w, units) ==
    UNION { IF { x \in w.rows : x.nta_code = u.nta_code } = {}
            THEN { [nta_code |-> u.nta_code, nta_name_x |-> u.nta_name,
                    nta_name_y |-> None, geometry |-> u.geometry,
                    attrs |-> [c \in w.cols |-> None]] }
            ELSE { [nta_code |-> u.nta_code, nta_name_x |-> u.nta_name,
                    nta_name_y |-> Some(x.nta_name), geometry |-> u.geometry,
                    attrs |-> [c \in w.cols |-> RoundCell(x.cells[c])]] :
                   x \in { x \in w.rows : x.nta_code = u.nta_code } } :
            u \in units.rows }

NoFile == [state |-> "absent", crs |-> "", features |-> {}]

\* What to_file may leave at the path: nothing (the path cannot be opened),
\* the whole collection, or the features written before it was interrupted.
WriteOutcomes(feats) ==
    { [raised |-> "", file |-> [state |-> "complete", crs |-> "EPSG:4326", features |-> feats]],
      [raised |-> "OSError", file |-> NoFile] }
    \cup { [raised |-> "OSError",
            file |-> [state |-> "partial", crs |-> "EPSG:4326", features |-> s]] :
           s \in SUBSET feats }

\* to_file opens the destination itself and writes the features into it.
to_file(feats) == WriteOutcomes(feats)

wide_to_geojson(w, units) == to_file(Features(w, units))

-----------------------------------------------------------------------------
(* main *)

NoTable == [crs |-> "", rows |-> {}]
NoWide == [cols |-> {}, rows |-> {}]

\* data/tiger as an earlier, successful run left it.
WarmFs ==
    [zip |-> Some([is_zip |-> TRUE, shp |-> {TigerRows({2})}]),
     ddir |-> [exists |-> TRUE, shp |-> {TigerRows({2})}]]

\* The last two entries of a call history.
LastTwo(s) == IF Len(s) > 2 THEN Tail(s) ELSE s

\* Everything but pc, args and fs, as it is before main() has done anything.
Fresh ==
    /\ api = <<>>
    /\ warned = {}
    /\ rents = {}
    /\ downloads = 0
    /\ calls = 0
    /\ ret = <<>>
    /\ tracts = NoTable
    /\ ntas = NoTable
    /\ cross = {}
    /\ nta_year = {}
    /\ cpi = None
    /\ wide = NoWide
    /\ out_file = NoFile
    /\ err = ""

\* --start and --end are any years of the window with start <= end; the
\* cache directory is empty or holds what an earlier run extracted.
Init ==
    /\ pc = "fetch"
    /\ args \in { [start |-> s, end |-> e] : s \in Years, e \in Years }
    /\ args.start <= args.end
    /\ fs \in {EmptyFs, WarmFs}
    /\ Fresh

\* Line 421: rents = fetch_many_years(args.start, args.end, args.census_key)
FetchManyYears ==
    /\ pc = "fetch"
    /\ \E a \in [args.start..args.end -> ApiOutcomes] :
         LET r == fetch_many_years(args.start, args.end, a) IN
         /\ api' = a
         /\ warned' = r.warned
         /\ rents' = r.df
         /\ err' = r.raised
         /\ pc' = IF r.raised = "" THEN "tiger" ELSE "failed"
    /\ UNCHANGED <<args, fs, downloads, calls, ret, tracts, ntas, cross,
                   nta_year, cpi, wide, out_file>>

\* The effect of one get_tiger_tracts_2020 call on the directory and on the
\* call history.
TigerCall(r) ==
    /\ fs' = r.fs
    /\ downloads' = downloads + r.downloaded
    /\ calls' = calls + 1
    /\ ret' = LastTwo(Append(ret, [raised |-> r.raised, gdf |-> r.gdf]))

\* Line 426: tracts = get_tiger_tracts_2020()
GetTigerTracts ==
    /\ pc = "tiger"
    /\ \E o \in NetOutcomes :
         LET r == get_tiger_tracts_2020(fs, o) IN
         /\ TigerCall(r)
         /\ err' = r.raised
         /\ tracts' = IF r.raised = "" THEN Val(r.gdf) ELSE tracts
         /\ pc' = IF r.raised = "" THEN "nta" ELSE "failed"
    /\ UNCHANGED <<args, api, warned, rents, ntas, cross, nta_year, cpi, wide,
                   out_file>>

\* Line 427: ntas = get_nta2020(), which calls get_tiger_tracts_2020 again.
GetNta2020 ==
    /\ pc = "nta"
    /\ \E o \in NetOutcomes :
         LET r == get_tiger_tracts_2020(fs, o) IN
         /\ TigerCall(r)
         /\ err' = r.raised
         /\ ntas' = IF r.raised = "" THEN NtaFromTracts(Val(r.gdf)) ELSE ntas
         /\ pc' = IF r.raised = "" THEN "join" ELSE "failed"
    /\ UNCHANGED <<args, api, warned, rents, tracts, cross, nta_year, cpi, wide,
                   out_file>>

\* Line 431: cross = spatial_join_to_nta(tracts, ntas)
SpatialJoin ==
    /\ pc = "join"
    /\ cross' = spatial_join_to_nta(tracts, ntas)
    /\ pc' = "aggregate"
    /\ UNCHANGED <<args, api, warned, rents, fs, downloads, calls, ret, tracts,
                   ntas, nta_year, cpi, wide, out_file, err>>

\* Line 436: nta_year = aggregate_to_nta(rents, cross)
Aggregate ==
    /\ pc = "aggregate"
    /\ nta_year' = aggregate_to_nta(rents, cross)
    /\ pc' = "cpi"
    /\ UNCHANGED <<args, api, warned, rents, fs, downloads, calls, ret, tracts,
                   ntas, cross, cpi, wide, out_file, err>>

\* Line 441: adj = cpi_adjust(nta_year, args.cpi_csv, base_year=2025)
CpiAdjust ==
    /\ pc = "cpi"
    /\ \E c \in CpiTables :
         LET r == cpi_adjust(nta_year, c, BASE_YEAR) IN
         /\ cpi' = Some(c)
         /\ nta_year' = r.df
         /\ err' = r.raised
         /\ pc' = IF r.raised = "" THEN "pivot" ELSE "failed"
    /\ UNCHANGED <<args, api, warned, rents, fs, downloads, calls, ret, tracts,
                   ntas, cross, wide, out_file>>

\* Line 445: wide = pivot_wide(adj)
PivotWide ==
    /\ pc = "pivot"
    /\ wide' = pivot_wide(nta_year)
    /\ pc' = "export"
    /\ UNCHANGED <<args, api, warned, rents, fs, downloads, calls, ret, tracts,
                   ntas, cross, nta_year, cpi, out_file, err>>

\* Line 446: wide_to_geojson(wide, ntas, args.out)
WideToGeojson ==
    /\ pc = "export"
    /\ \E w \in wide_to_geojson(wide, ntas) :
         /\ out_file' = w.file
         /\ err' = w.raised
         /\ pc' = IF w.raised = "" THEN "done" ELSE "failed"
    /\ UNCHANGED <<args, api, warned, rents, fs, downloads, calls, ret, tracts,
                   ntas, cross, nta_year, cpi, wide>>

Next ==
    \/ FetchManyYears
    \/ GetTigerTracts
    \/ GetNta2020
    \/ SpatialJoin
    \/ Aggregate
    \/ CpiAdjust
    \/ PivotWide
    \/ WideToGeojson

Spec == Init /\ [][Next]_vars

-----------------------------------------------------------------------------
(* spatial_join_to_nta and aggregate_to_nta on arbitrary tables *)

\* Tract tables: three NYC tracts of one cell each (the first in cell 1).
JoinTractTables ==
    { [crs |-> "EPSG:4269",
       rows |-> { [GEOID |-> "36005000100", geometry |-> {1}],
                  [GEOID |-> "36047000200", geometry |-> {c2}],
                  [GEOID |-> "36061000400", geometry |-> {c3}] }] :
      c2 \in Cells, c3 \in Cells }

\* Unit tables: up to two units, each covering any cells (a unit covering
\* none is left out of the table).
JoinUnitTables ==
    { [crs |-> "EPSG:2263",
       rows |-> { u \in { [nta_code |-> "BX01", nta_name |-> "Bronx 1", geometry |-> g1],
                          [nta_code |-> "BK01", nta_name |-> "Brooklyn 1", geometry |-> g2] } :
                  u.geometry # {} }] :
      g1 \in SUBSET Cells, g2 \in SUBSET Cells }

Estimates == {None} \cup { Some(v) : v \in 1..MaxRent }

\* Rent tables: one record per tract of the tract table, the third in
\* either of two years, and one record of a tract the tract table lacks.
JoinRentTables ==
    { { [geoid |-> "36005000100", year |-> END_DEFAULT, est |-> e1],
        [geoid |-> "36047000200", year |-> END_DEFAULT, est |-> e2],
        [geoid |-> "36061000400", year |-> y3, est |-> e3],
        [geoid |-> "36085000500", year |-> END_DEFAULT, est |-> Some(1)] } :
      e1 \in Estimates, e2 \in Estimates, e3 \in Estimates,
      y3 \in {END_DEFAULT - 1, END_DEFAULT} }

InitJoin ==
    /\ pc = "join"
    /\ args = [start |-> END_DEFAULT - 1, end |-> END_DEFAULT]
    /\ fs = EmptyFs
    /\ api = <<>>
    /\ warned = {}
    /\ downloads = 0
    /\ calls = 0
    /\ ret = <<>>
    /\ cross = {}
    /\ nta_year = {}
    /\ cpi = None
    /\ wide = NoWide
    /\ out_file = NoFile
    /\ err = ""
    /\ tracts \in JoinTractTables
    /\ ntas \in JoinUnitTables
    /\ rents \in JoinRentTables

NextJoin ==
    \/ SpatialJoin
    \/ Aggregate

SpecJoin == InitJoin /\ [][NextJoin]_vars

-----------------------------------------------------------------------------
(* get_tiger_tracts_2020 called repeatedly *)

InitCache ==
    /\ pc = "cache"
    /\ args = [start |-> END_DEFAULT, end |-> END_DEFAULT]
    /\ fs = EmptyFs
    /\ Fresh

\* One call, whatever it returns or raises; the caller may call again.
CacheCall ==
    /\ pc = "cache"
    /\ calls < MaxCalls
    /\ \E o \in NetOutcomes :
         LET r == get_tiger_tracts_2020(fs, o) IN
         /\ TigerCall(r)
         /\ err' = r.raised
         /\ tracts' = IF r.raised = "" THEN Val(r.gdf) ELSE tracts
    /\ UNCHANGED <<pc, args, api, warned, rents, ntas, cross, nta_year, cpi,
                   wide, out_file>>

NextCache == CacheCall

SpecCache == InitCache /\ [][NextCache]_vars

-----------------------------------------------------------------------------
(* Properties of get_tiger_tracts_2020's cache *)

\* The last two calls both returned a table.
TwoReturns == Len(ret) = 2 /\ ret[1].raised = "" /\ ret[2].raised = ""

\* A call made while the extracted directory exists downloads nothing and
\* leaves the zip file and the directory as they are.
CachedCallReadsOnly ==
    fs.ddir.exists /\ calls' = calls + 1 => downloads' = downloads /\ fs' = fs

\* C10, as amended: a call made while the extracted directory exists
\* performs no download and no extraction and reads the files the previous
\* call read, so two successive calls that return give identical polygon
\* sets, and no download happens once the directory exists.
C10_CachedCallsAgree ==
    /\ [](TwoReturns => ret[1].gdf = ret[2].gdf)
    /\ [][CachedCallReadsOnly]_vars

\* C10, as claimed: the above, and at most one download per cache directory.
C10_AtMostOneDownload ==
    /\ [](TwoReturns => ret[1].gdf = ret[2].gdf)
    /\ [][CachedCallReadsOnly]_vars
    /\ [](downloads <= 1)

\* Two calls have returned, the first after a download, the second from the
\* directory the first extracted.
C10_Witness ==
    /\ TwoReturns
    /\ downloads >= 1
    /\ fs.ddir.exists

-----------------------------------------------------------------------------
(* Properties of spatial_join_to_nta *)

Joined == pc \in {"aggregate", "cpi"}

\* The crosswalk rows of tract row t.
CrossRowsOf(t) == { c \in cross : c.GEOID = t.GEOID }

\* The tract rows no unit contains.
Uncontained == { t \in tracts.rows : Containing(t, ntas) = {} }

\* The (tract, containing unit) pairs.
ContainedPairs ==
    UNION { { <<t.GEOID, u.nta_code, u.nta_name>> : u \in Containing(t, ntas) } :
            t \in tracts.rows }

\* C4: each fine identifier appears in at most one row of the crosswalk,
\* also when two units both contain the same fine polygon.
C4_OneRowPerTract ==
    Joined => \A t \in tracts.rows : Cardinality(CrossRowsOf(t)) <= 1

-----------------------------------------------------------------------------
(* Properties of aggregate_to_nta *)

\* The keys a unit-year row can have.
AllKeys ==
    { <<u.nta_code, u.nta_name, r.year>> : u \in ntas.rows, r \in rents }

\* The tract records the crosswalk maps to the unit of key k, in k's year.
Matched(k) ==
    { r \in rents :
        /\ r.year = k[3]
        /\ \E c \in cross : /\ c.GEOID = r.geoid
                            /\ c.nta_code = Some(k[1])
                            /\ c.nta_name = Some(k[2]) }

NonNull(m) == { r \in m : ~IsNull(r.est) }

RowsOfKey(k) ==
    { r \in nta_year : <<r.nta_code, r.nta_name, r.year>> = k }

\* The i-th smallest estimate of the records m, by counting.
Kth(m, i) ==
    CHOOSE v \in { Val(r.est) : r \in m } :
        /\ Cardinality({ r \in m : Val(r.est) < v }) < i
        /\ Cardinality({ r \in m : Val(r.est) <= v }) >= i

\* Fraction f is the median of the estimates of the records m.
IsMedianOf(f, m) ==
    LET n == Cardinality(m) IN
    2 * f.n = (Kth(m, (n + 1) \div 2) + Kth(m, n \div 2 + 1)) * f.d

\* C5, as claimed: a key has a row only if at least one of its matched
\* records has a non-null estimate; no row is null-valued.
C5_NoRowForNullGroup ==
    pc = "cpi" =>
        \A r \in nta_year :
            /\ NonNull(Matched(<<r.nta_code, r.nta_name, r.year>>)) # {}
            /\ ~IsNull(r.est)

\* C5, as amended: a key has a row exactly if at least one tract record is
\* matched to it; the row of a group whose matched records all have null
\* estimates is a single null-valued row (not zero, not absent), and a row
\* is null-valued only in that case.
C5_NullGroupKeepsNullRow ==
    pc = "cpi" =>
        /\ \A r \in nta_year : Matched(<<r.nta_code, r.nta_name, r.year>>) # {}
        /\ \A k \in AllKeys :
             Matched(k) # {} =>
                /\ Cardinality(RowsOfKey(k)) = 1
                /\ \A r \in RowsOfKey(k) : IsNull(r.est) <=> NonNull(Matched(k)) = {}

\* A unit-year whose matched records all have null estimates was aggregated.
C5_Witness ==
    /\ pc = "cpi"
    /\ \E k \in AllKeys : Matched(k) # {} /\ NonNull(Matched(k)) = {}
    /\ \E r \in nta_year : IsNull(r.est)

\* C6: for every group with at least one non-null estimate the value is the
\* median of the non-null estimates only (a null is excluded, not counted as
\* zero), and a record whose tract has no unit in the crosswalk is in no
\* group.
C6_MedianOfNonNull ==
    pc = "cpi" =>
        /\ \A k \in AllKeys :
             NonNull(Matched(k)) # {} =>
                /\ RowsOfKey(k) # {}
                /\ \A r \in RowsOfKey(k) :
                     ~IsNull(r.est) /\ IsMedianOf(Val(r.est), NonNull(Matched(k)))
        /\ \A r \in nta_year : <<r.nta_code, r.nta_name, r.year>> \in AllKeys

\* A group of three matched records, one of them null, was aggregated, and
\* a record of a tract without a unit was left out.
C6_Witness ==
    /\ pc = "cpi"
    /\ \E k \in AllKeys :
         /\ Cardinality(Matched(k)) = 3
         /\ Cardinality(NonNull(Matched(k))) = 2
         /\ \E r \in RowsOfKey(k) : ~IsNull(r.est) /\ Val(r.est).d = 2
    /\ \E r \in rents : \A c \in cross : c.GEOID = r.geoid => IsNull(c.nta_code)

-----------------------------------------------------------------------------
(* Properties of fetch_many_years in a run of main *)

RequestedYears == args.start..args.end

\* fetch_many_years has been called.
Fetched == pc # "fetch" /\ DOMAIN api = RequestedYears

\* fetch_many_years raised: main stopped before any geometry was loaded.
FetchRaised == pc = "failed" /\ calls = 0

OkYears == { y \in RequestedYears : api[y].kind = "ok" }

\* The rows of the years whose request was answered with a table.
RowsOfOkYears == UNION { fetch_acs5_rent(y, api[y]).df : y \in OkYears }

\* C1: whatever way some years' fetches fail (HTTP status, transport error,
\* timeout, unparsable body), the loop goes on to the later years and
\* returns exactly the rows of the years that succeeded.  Stated for the
\* runs in which at least one year succeeds.
C1_FailedYearsSkipped ==
    Fetched /\ OkYears # {} =>
        /\ ~FetchRaised
        /\ rents = RowsOfOkYears

\* C3: when every requested year fails with a failure the loop downgrades
\* to a warning, fetch_many_years returns an empty table and main goes on
\* to the geometry stage.
C3_AllYearsFailedContinues ==
    Fetched /\ warned = RequestedYears =>
        /\ ~FetchRaised
        /\ rents = {}

-----------------------------------------------------------------------------
(* Properties of cpi_adjust in a run of main *)

\* The unit-year table main hands to cpi_adjust.
UnitYearTable == aggregate_to_nta(rents, cross)

CpiRead == ~IsNull(cpi)

CpiLacksBase == BASE_YEAR \notin DOMAIN Val(cpi)

CpiLacksRowYear == \E r \in UnitYearTable : r.year \notin DOMAIN Val(cpi)

\* C2: if the CPI table lacks the reference year or the year of any row of
\* the unit-year table, cpi_adjust fails: no row is skipped, no adjusted
\* column is added, wide_to_geojson is not reached and no file is at the
\* output path.
C2_CpiGapIsFatal ==
    CpiRead /\ (CpiLacksBase \/ CpiLacksRowYear) =>
        /\ pc = "failed"
        /\ err \in {"ValueError", "KeyError"}
        /\ nta_year = UnitYearTable
        /\ wide = NoWide
        /\ out_file = NoFile

\* cpi_adjust has failed on a CPI table that has the reference year and
\* lacks the year of a row.
C2_Witness ==
    /\ CpiRead
    /\ ~CpiLacksBase
    /\ CpiLacksRowYear
    /\ pc = "failed"
    /\ err = "KeyError"

-----------------------------------------------------------------------------
(* Properties of the output file *)

\* C8: the file at the destination is absent or a complete feature
\* collection, also when the write fails or is interrupted.
C8_NoPartialOutput == out_file.state \in {"absent", "complete"}

\* C9: every feature of a written output has exactly one rent_<year>
\* attribute for every requested year.
C9_ColumnPerRequestedYear ==
    out_file.state = "complete" =>
        \A f \in out_file.features :
            DOMAIN f.attrs = { RentCol(y) : y \in RequestedYears }

====
